---------------------------- MODULE Spec2Model ----------------------------
(***************************************************************************)
(* A model of the method-logging decorator `Log`, of its argument          *)
(* projection (`filterObject`, and the inline projection of index.ts) and  *)
(* of the logger's line sink, as implemented in src/index.ts,              *)
(* src/logger.ts and src/dlogger.ts.                                       *)
(*                                                                         *)
(* JavaScript values are tagged records:                                   *)
(*   [t |-> "undefined"], [t |-> "null"], [t |-> "number", n |-> 1],       *)
(*   [t |-> "object", f |-> <function from property names to values>],     *)
(*   [t |-> "error", message |-> "boom"], [t |-> "promise", id |-> 1].     *)
(* An abrupt completion (a raised exception) of an expression is the       *)
(* record [t |-> "throw", e |-> <the raised value>].                       *)
(*                                                                         *)
(* A dotted field path is modelled by the sequence of its segments, i.e.   *)
(* by the value of k.split("."); rest.join(".") is then the tail sequence  *)
(* and it is truthy exactly when the tail is not empty.  Objects are maps  *)
(* from property names to values; the order of their keys is not kept.     *)
(*                                                                         *)
(* Three Logs are modelled: the one of index.ts, the one of logger.ts and  *)
(* the one of dlogger.ts (its three copies differ only in the Logger       *)
(* instance written to).  Promises follow ECMAScript: a settled promise    *)
(* queues one job per reaction, in the order the reactions were attached,  *)
(* and the jobs run one at a time after the running code has returned.     *)
(* Not modelled: Logger.configure, Logged, the log path, the date prefix.  *)
(***************************************************************************)
EXTENDS Integers, Sequences, FiniteSets, TLC

VARIABLES
    \* ---- the projection (pure function) part
    obj,        \* the object handed to the projection
    keys,       \* propertyKeys: a sequence of field paths
    out,        \* filterObject(obj, keys), once computed
    outRev,     \* filterObject(obj, keys in the opposite order), once computed
    fpc,        \* "in" | "fwd" | "done" | "off"
    \* ---- the decorator part: one wrapped method and one call of it
    variant,    \* which Log wraps the method: "index" | "logger" | "dlogger"
    propKeys,   \* propertyNames.flat(): the decorator's field paths
    args,       \* the arguments of the call
    orig,       \* what the original method did when applied (None: not applied)
    pc,         \* "ready" | "done": the call has not / has come back
    ret,        \* what the caller got: a value, or Throw(e) for an exception
    log,        \* the lines handed to the sink and appended, in order
    trace,      \* history: the events of the call, in order
    promises,   \* the promises created, by id: state, value, reactions, handled
    queue,      \* the microtask queue: promise reaction jobs
    callerAttached, \* the caller chained a handler on the value it got
    callerSeen  \* the settlement the caller's handler observed (None: not yet)

fvars == <<obj, keys, out, outRev, fpc>>
dvars == <<variant, propKeys, args, orig, pc, ret, log, trace, promises,
           queue, callerAttached, callerSeen>>
vars == <<obj, keys, out, outRev, fpc, variant, propKeys, args, orig, pc, ret,
          log, trace, promises, queue, callerAttached, callerSeen>>

(***************************************************************************)
(* Bounds                                                                  *)
(***************************************************************************)
MaxDepth == 3       \* nesting depth of the objects projected
MaxPathLen == 3     \* segments per field path
MaxPaths == 2       \* field paths per decorator
MaxNum == 1         \* numbers are 0..MaxNum

Keys == {"a", "b"}

(***************************************************************************)
(* JavaScript values                                                       *)
(***************************************************************************)
Undef == [t |-> "undefined"]
Null == [t |-> "null"]
Num(n) == [t |-> "number", n |-> n]
Obj(f) == [t |-> "object", f |-> f]
Throw(e) == [t |-> "throw", e |-> e]
Str(x) == [t |-> "string", s |-> x]
Err(m) == [t |-> "error", message |-> m]
PromiseRef(i) == [t |-> "promise", id |-> i]
TypeError == Err("TypeError")
None == [t |-> "none"]
NoProps == [k \in {} |-> Undef]

IsThrow(v) == v.t = "throw"

\* typeof v
TypeOf(v) ==
    CASE v.t = "null" -> "object"
      [] v.t = "error" -> "object"
      [] v.t = "promise" -> "object"
      [] OTHER -> v.t

\* the truthiness test of `if (!a)`
Truthy(v) ==
    CASE v.t = "undefined" -> FALSE
      [] v.t = "null" -> FALSE
      [] v.t = "number" -> v.n # 0
      [] OTHER -> TRUE

\* the property read o[key]: a TypeError on null and undefined, undefined
\* for a property the value does not have
Get(o, key) ==
    CASE o.t \in {"null", "undefined"} -> Throw(TypeError)
      [] o.t = "object" -> IF key \in DOMAIN o.f THEN o.f[key] ELSE Undef
      [] OTHER -> Undef

\* the own enumerable properties copied by the spread {...v}: none for
\* undefined, null and numbers
Spread(v) == IF v.t = "object" THEN v.f ELSE NoProps

\* r[key] = v on the accumulator r (a function from property names)
SetProp(r, key, v) == [k \in DOMAIN r \cup {key} |-> IF k = key THEN v ELSE r[k]]

\* {...x, ...y}
Merge(x, y) ==
    [k \in DOMAIN Spread(x) \cup DOMAIN Spread(y) |->
        IF k \in DOMAIN Spread(y) THEN Spread(y)[k] ELSE Spread(x)[k]]

(***************************************************************************)
(* filterObject (src/dlogger.ts 42-58, 169-185, 310-326 and                *)
(* src/logger.ts 32-47; the statements after the return in logger.ts are   *)
(* unreachable).  An accumulator is the object Obj(r) under construction,  *)
(* or the throw that left the reduce.                                      *)
(***************************************************************************)
RECURSIVE filterObject(_, _)
RECURSIVE filterReduce(_, _, _)

\* one call of the reducer (r, k) => { ... return r }
filterStep(o, acc, k) ==
    LET key == Head(k)
        nested == Tail(k)
        r == acc.f
    IN  IF nested # <<>>
        THEN LET prev == IF key \in DOMAIN r THEN r[key] ELSE Undef
                 sub == Get(o, key)
                 inner == IF IsThrow(sub) THEN sub
                          ELSE filterObject(sub, <<nested>>)
             IN  IF IsThrow(inner) THEN inner
                 ELSE Obj(SetProp(r, key, Obj(Merge(prev, inner))))
        ELSE LET v == Get(o, key)
             IN  IF IsThrow(v) THEN v ELSE Obj(SetProp(r, key, v))

\* propertyKeys.reduce(..., {})
filterReduce(o, ks, acc) ==
    IF ks = <<>> \/ IsThrow(acc) THEN acc
    ELSE filterReduce(o, Tail(ks), filterStep(o, acc, Head(ks)))

filterObject(o, propertyKeys) ==
    IF TypeOf(o) # "object" THEN o
    ELSE filterReduce(o, propertyKeys, Obj(NoProps))

(***************************************************************************)
(* The projection of index.ts (12-23): for one field path c, the walk      *)
(* applied to each argument.                                               *)
(***************************************************************************)
RECURSIVE walkPath(_, _)
\* for (const cKey of c.split(".")) { if (!a) return a; a = a[cKey] } return a
walkPath(a, c) ==
    IF c = <<>> THEN a
    ELSE IF ~Truthy(a) THEN a
    ELSE walkPath(Get(a, Head(c)), Tail(c))

walkArg(a, c) == IF TypeOf(a) # "object" THEN a ELSE walkPath(a, c)

(***************************************************************************)
(* The inputs of the projection                                            *)
(***************************************************************************)
Nums == {Num(n) : n \in 0..MaxNum}
Leaves == {Null} \cup Nums

\* objects of nesting depth at most d; nested objects sit under "a"
RECURSIVE ObjectsOfDepth(_)
ObjectsOfDepth(d) ==
    IF d = 0 THEN {}
    ELSE LET below == ObjectsOfDepth(d - 1)
         IN  { Obj(f) : f \in UNION { { g \in [S -> Leaves \cup below] :
                                          \A k \in S : k # "a" => g[k] \in Leaves }
                                      : S \in SUBSET Keys } }

Values == {Undef} \cup Leaves \cup ObjectsOfDepth(MaxDepth)

RECURSIVE SeqsUpTo(_, _)
\* the non-empty sequences over S of length at most n
SeqsUpTo(S, n) ==
    IF n = 0 THEN {}
    ELSE LET shorter == SeqsUpTo(S, n - 1)
         IN  { <<x>> : x \in S } \cup { <<x>> \o s : x \in S, s \in shorter }

Paths == SeqsUpTo(Keys, MaxPathLen)
PathLists == SeqsUpTo(Paths, MaxPaths)

Reverse(s) == [i \in 1..Len(s) |-> s[Len(s) + 1 - i]]

(***************************************************************************)
(* The projection as a state machine: the inputs are drawn in Init, the    *)
(* actions apply the function.                                             *)
(***************************************************************************)
FilterInit ==
    /\ obj \in Values
    /\ keys \in PathLists
    /\ out = None
    /\ outRev = None
    /\ fpc = "in"
    /\ variant = "dlogger"
    /\ propKeys = <<>>
    /\ args = <<>>
    /\ orig = None
    /\ pc = "off"
    /\ ret = None
    /\ log = <<>>
    /\ trace = <<>>
    /\ promises = <<>>
    /\ queue = <<>>
    /\ callerAttached = FALSE
    /\ callerSeen = None

\* filterObject(obj, propertyKeys), as Log calls it for one argument
Project ==
    /\ fpc = "in"
    /\ out' = filterObject(obj, keys)
    /\ fpc' = "fwd"
    /\ UNCHANGED <<obj, keys, outRev>>
    /\ UNCHANGED dvars

\* the same call with the decorator's paths listed in the opposite order
ProjectReversed ==
    /\ fpc = "fwd"
    /\ outRev' = filterObject(obj, Reverse(keys))
    /\ fpc' = "done"
    /\ UNCHANGED <<obj, keys, out>>
    /\ UNCHANGED dvars

FilterNext == Project \/ ProjectReversed

SpecFilter == FilterInit /\ [][FilterNext]_vars

(***************************************************************************)
(* The line sink: Logger.log and Logger.writeLine.                         *)
(* A line is the pretext (source label and kind of entry) and the text the *)
(* payload was formatted to.  The date prefix and the file name are left   *)
(* out.  `log` holds the lines in the order writeLine appended them.       *)
(***************************************************************************)
Source == "Account.withdraw"
ArgsTag == "arguements"
ReturnTag == "return"
ErrorTag == "error message"

SinkFaults == {"none", "mkdir", "append"}
SinkError == Err("EACCES")

Arr(items) == [t |-> "array", items |-> items]

RECURSIVE JsonView(_)
\* what JSON.stringify keeps of a value (index.ts, logger.ts): properties
\* holding undefined are dropped, an Error and a Promise have no enumerable
\* properties
JsonView(v) ==
    CASE v.t = "object" ->
            Obj([k \in {j \in DOMAIN v.f : v.f[j].t # "undefined"} |-> JsonView(v.f[k])])
      [] v.t \in {"error", "promise"} -> Obj(NoProps)
      [] v.t = "array" ->
            Arr([i \in 1..Len(v.items) |->
                    IF v.items[i].t = "undefined" THEN Null ELSE JsonView(v.items[i])])
      [] v.t = "props" -> [t |-> "props", f |-> [c \in DOMAIN v.f |-> JsonView(v.f[c])]]
      [] OTHER -> v

\* JSON.stringify(obj) in index.ts and logger.ts, inspect(obj, {depth:
\* Infinity}) in dlogger.ts, which shows every property of the values modelled
Format(v, x) == IF v = "dlogger" THEN x ELSE JsonView(x)

\* writeLine: existsSync/mkdirSync raise in every variant; appendFileSync
\* raises in dlogger.ts, the callback of appendFile ignores the error in
\* index.ts and logger.ts (the line is lost).  The result is the new log, or
\* the throw.
writeLine(v, lg, line, fault) ==
    IF fault = "mkdir" THEN Throw(SinkError)
    ELSE IF fault = "append"
         THEN IF v = "dlogger" THEN Throw(SinkError) ELSE Arr(lg)
         ELSE Arr(Append(lg, line))

\* Logger.log(obj, pretext)
LoggerLog(v, lg, x, kind, fault) ==
    writeLine(v, lg, [source |-> Source, kind |-> kind, text |-> Format(v, x)], fault)

(***************************************************************************)
(* The run-time state a call works on: m = [log, trace, promises, queue].  *)
(***************************************************************************)
Ev(m, e) == [m EXCEPT !.trace = Append(@, e)]

\* an abrupt completion inside the wrapper, with the machine it leaves
Thrower(m, e) == [t |-> "throw", e |-> e, m |-> m]

\* a call of Logger.log from the wrapper: the machine after it, or the throw.
\* The history records the entry appended, or that the sink failed.
Emit(m, v, x, kind, fault) ==
    LET w == LoggerLog(v, m.log, x, kind, fault)
    IN  IF IsThrow(w) THEN Thrower(Ev(m, "sinkFault"), w.e)
        ELSE IF w.items = m.log THEN [t |-> "m", m |-> Ev(m, "sinkFault")]
        ELSE [t |-> "m", m |-> Ev([m EXCEPT !.log = w.items], kind)]

\* a new promise; its id is Len(m.promises) + 1
NewPromise(m, st, val) ==
    [m EXCEPT !.promises = Append(@, [state |-> st, value |-> val,
                                      reactions |-> <<>>, handled |-> FALSE])]

\* p.then(...) / p.catch(...): the derived promise is the new last one; a
\* settled p queues the reaction job at once
Then(m, id, kind) ==
    LET d == Len(m.promises) + 1
        m1 == NewPromise(m, "pending", Undef)
        p == m.promises[id]
    IN  IF p.state = "pending"
        THEN [m1 EXCEPT !.promises[id].reactions = Append(@, [kind |-> kind, derived |-> d]),
                        !.promises[id].handled = TRUE]
        ELSE [m1 EXCEPT !.promises[id].handled = TRUE,
                        !.queue = Append(@, [kind |-> kind, derived |-> d,
                                             state |-> p.state, value |-> p.value])]

\* a pending promise settles: its reactions are queued in the order attached
SettleP(m, id, st, val) ==
    LET rs == m.promises[id].reactions
    IN  [m EXCEPT !.promises[id].state = st,
                  !.promises[id].value = val,
                  !.promises[id].reactions = <<>>,
                  !.queue = @ \o [i \in 1..Len(rs) |->
                                    [kind |-> rs[i].kind, derived |-> rs[i].derived,
                                     state |-> st, value |-> val]]]

\* error.message
MessageOf(e) ==
    CASE e.t \in {"undefined", "null"} -> Throw(TypeError)
      [] e.t = "error" -> Str(e.message)
      [] OTHER -> Undef

(***************************************************************************)
(* What the original method may do when applied                            *)
(***************************************************************************)
PlainReturns == {Undef, Num(1)}
Thrown == {Err("boom"), Undef}

Behaviours ==
    { [kind |-> "return", st |-> "fulfilled", v |-> x] : x \in PlainReturns }
    \cup { [kind |-> "throw", st |-> "rejected", v |-> e] : e \in Thrown }
    \cup { [kind |-> "promise", st |-> "pending", v |-> Undef] }
    \cup { [kind |-> "promise", st |-> "fulfilled", v |-> x] : x \in PlainReturns }
    \cup { [kind |-> "promise", st |-> "rejected", v |-> e] : e \in Thrown }

\* the result of a call of the wrapper: the machine, what the caller gets,
\* what the original did (None when it was not applied)
Outcome(m, r, o) == [m |-> m, ret |-> r, orig |-> o]
Raised(m, e, o) == Outcome(Ev(m, "raised"), Throw(e), o)
Returned(m, x, o) == Outcome(Ev(m, "returned"), x, o)

Range(s) == { s[i] : i \in DOMAIN s }

(***************************************************************************)
(* The logged arguments                                                    *)
(***************************************************************************)
\* index.ts 11-28: one array per field path, or the arguments as they are
ArgsPayloadIndex(as, pk) ==
    IF Len(pk) > 0
    THEN [t |-> "props",
          f |-> [c \in Range(pk) |-> Arr([i \in 1..Len(as) |-> walkArg(as[i], c)])]]
    ELSE Arr(as)

\* logger.ts 15-21, dlogger.ts 16-22: args.map(a => filterObject(a, keys)); a
\* throw of filterObject leaves the wrapper
ArgsPayloadFilter(as, pk) ==
    IF Len(pk) > 0
    THEN LET fs == [i \in 1..Len(as) |-> filterObject(as[i], pk)]
         IN  IF \E i \in 1..Len(as) : IsThrow(fs[i])
             THEN fs[CHOOSE i \in 1..Len(as) :
                        IsThrow(fs[i]) /\ \A j \in 1..(i - 1) : ~IsThrow(fs[j])]
             ELSE Arr(fs)
    ELSE Arr(as)

(***************************************************************************)
(* descriptor.value = function (...args) { ... } : one call of the wrapped *)
(* method from m, the original behaving as b, the sink failing as fa at    *)
(* the arguments entry and as fo at an entry written before returning.     *)
(* The body runs to completion before any reaction job does.               *)
(***************************************************************************)
\* index.ts 7-35
WrapIndex(m, b, fa, fo) ==
    LET a == Emit(m, "index", ArgsPayloadIndex(args, propKeys), ArgsTag, fa)
    IN  IF IsThrow(a) THEN Raised(a.m, a.e, None)
        ELSE LET m1 == Ev(a.m, "invoke")
             IN  IF b.kind = "throw" THEN Raised(m1, b.v, b)
                 ELSE LET m2 == IF b.kind = "promise" THEN NewPromise(m1, b.st, b.v) ELSE m1
                          result == IF b.kind = "promise"
                                    THEN PromiseRef(Len(m2.promises)) ELSE b.v
                          r == Emit(m2, "index", result, ReturnTag, fo)
                      IN  IF IsThrow(r) THEN Raised(r.m, r.e, b)
                          ELSE Returned(r.m, result, b)

\* logger.ts 11-28
WrapLogger(m, b, fa) ==
    LET pay == ArgsPayloadFilter(args, propKeys)
        a == IF IsThrow(pay) THEN Thrower(m, pay.e)
             ELSE Emit(m, "logger", pay, ArgsTag, fa)
    IN  IF IsThrow(a) THEN Raised(a.m, a.e, None)
        ELSE LET m1 == Ev(a.m, "invoke")
             IN  IF b.kind = "throw" THEN Raised(m1, b.v, b)
                 ELSE LET m2 == NewPromise(m1, b.st, b.v)
                          m3 == Then(m2, Len(m2.promises), "wrapThen")
                      IN  Returned(m3, PromiseRef(Len(m3.promises)), b)

\* WrapDlogger with the return entry of a plain value written before the
\* wrapper returns instead of in a reaction job
WrapDloggerEager(m, b, fa, fo) ==
    LET pay == ArgsPayloadFilter(args, propKeys)
        a == IF IsThrow(pay) THEN Thrower(m, pay.e)
             ELSE Emit(m, "dlogger", pay, ArgsTag, fa)
    IN  IF IsThrow(a) THEN Raised(a.m, a.e, None)
        ELSE LET m1 == Ev(a.m, "invoke")
             IN  IF b.kind = "throw"
                 THEN LET msg == MessageOf(b.v)
                          e == IF IsThrow(msg) THEN Thrower(m1, msg.e)
                               ELSE Emit(m1, "dlogger", msg, ErrorTag, fo)
                      IN  IF IsThrow(e) THEN Raised(e.m, e.e, b)
                          ELSE Raised(e.m, b.v, b)
                 ELSE IF b.kind = "return"
                 THEN LET r == Emit(m1, "dlogger", b.v, ReturnTag, fo)
                      IN  IF IsThrow(r) THEN Raised(r.m, r.e, b)
                          ELSE Returned(r.m, b.v, b)
                 ELSE LET m2 == NewPromise(m1, b.st, b.v)
                          p == Len(m2.promises)
                          m3 == Then(m2, p, "wrapThen")
                          m4 == Then(m3, Len(m3.promises), "wrapCatch")
                      IN  Returned(m4, PromiseRef(p), b)

\* dlogger.ts 12-38 (and 137-165, 280-306)
WrapDlogger(m, b, fa, fo) ==
    LET pay == ArgsPayloadFilter(args, propKeys)
        a == IF IsThrow(pay) THEN Thrower(m, pay.e)
             ELSE Emit(m, "dlogger", pay, ArgsTag, fa)
    IN  IF IsThrow(a) THEN Raised(a.m, a.e, None)
        ELSE LET m1 == Ev(a.m, "invoke")
             IN  IF b.kind = "throw"
                 THEN LET msg == MessageOf(b.v)
                          e == IF IsThrow(msg) THEN Thrower(m1, msg.e)
                               ELSE Emit(m1, "dlogger", msg, ErrorTag, fo)
                      IN  IF IsThrow(e) THEN Raised(e.m, e.e, b)
                          ELSE Raised(e.m, b.v, b)
                 ELSE LET m2 == NewPromise(m1, b.st, b.v)
                          p == Len(m2.promises)
                          m3 == Then(m2, p, "wrapThen")
                          m4 == Then(m3, Len(m3.promises), "wrapCatch")
                      IN  Returned(m4, IF b.kind = "promise" THEN PromiseRef(p) ELSE b.v, b)

(***************************************************************************)
(* The reaction jobs                                                       *)
(***************************************************************************)
\* .then((r) => { Logger.log(r, `(${source}) return`) }) with no rejection
\* handler (logger.ts 23-25, dlogger.ts 26-28): a rejection passes through
\* to the derived promise, a throw of the callback rejects it
JobWrapThen(m, v, j, fault) ==
    IF j.state = "fulfilled"
    THEN LET e == Emit(m, v, j.value, ReturnTag, fault)
         IN  IF IsThrow(e) THEN SettleP(e.m, j.derived, "rejected", e.e)
             ELSE SettleP(e.m, j.derived, "fulfilled", Undef)
    ELSE SettleP(m, j.derived, "rejected", j.value)

\* .catch(error => { Logger.log(error.message, ...); throw error })
\* (dlogger.ts 28-31): a fulfilment passes through
JobWrapCatch(m, v, j, fault) ==
    IF j.state = "rejected"
    THEN LET msg == MessageOf(j.value)
             e == IF IsThrow(msg) THEN Thrower(m, msg.e)
                  ELSE Emit(m, v, msg, ErrorTag, fault)
         IN  IF IsThrow(e) THEN SettleP(e.m, j.derived, "rejected", e.e)
             ELSE SettleP(e.m, j.derived, "rejected", j.value)
    ELSE SettleP(m, j.derived, "fulfilled", j.value)

\* the handlers the caller chained on the value it got: they observe the
\* settlement and handle it
JobCaller(m, j) ==
    SettleP(Ev(m, IF j.state = "rejected" THEN "callerRejected" ELSE "callerFulfilled"),
            j.derived, "fulfilled", Undef)

(***************************************************************************)
(* The decorator as a state machine                                        *)
(***************************************************************************)
MaxArgs == 1        \* arguments per call

Variants == {"index", "logger", "dlogger"}
Account == Obj([k \in Keys |-> IF k = "a" THEN Obj([j \in Keys |-> Num(1)]) ELSE Num(0)])
ArgValues == {Undef, Null, Num(1), Account}
CallArgs == {<<>>} \cup SeqsUpTo(ArgValues, MaxArgs)
DecoratorKeys == {<<>>, << <<"b">> >>, << <<"a", "a">>, <<"a", "b">> >>}

M == [log |-> log, trace |-> trace, promises |-> promises, queue |-> queue]

SetM(m) ==
    /\ log' = m.log
    /\ trace' = m.trace
    /\ promises' = m.promises
    /\ queue' = m.queue

Init ==
    /\ variant \in Variants
    /\ propKeys \in DecoratorKeys
    /\ args \in CallArgs
    /\ orig = None
    /\ pc = "ready"
    /\ ret = None
    /\ log = <<>>
    /\ trace = <<>>
    /\ promises = <<>>
    /\ queue = <<>>
    /\ callerAttached = FALSE
    /\ callerSeen = None
    /\ obj = None
    /\ keys = <<>>
    /\ out = None
    /\ outRev = None
    /\ fpc = "off"

Call(res) ==
    /\ SetM(res.m)
    /\ ret' = res.ret
    /\ orig' = res.orig
    /\ pc' = "done"
    /\ UNCHANGED <<variant, propKeys, args, callerAttached, callerSeen>>
    /\ UNCHANGED fvars

\* the caller calls the method wrapped by the Log of index.ts
InvokeIndex ==
    /\ pc = "ready"
    /\ variant = "index"
    /\ \E b \in Behaviours, fa \in SinkFaults, fo \in SinkFaults :
          Call(WrapIndex(M, b, fa, fo))

\* ... by the Log of logger.ts
InvokeLogger ==
    /\ pc = "ready"
    /\ variant = "logger"
    /\ \E b \in Behaviours, fa \in SinkFaults :
          Call(WrapLogger(M, b, fa))

\* ... by the Log of dlogger.ts
InvokeDlogger ==
    /\ pc = "ready"
    /\ variant = "dlogger"
    /\ \E b \in Behaviours, fa \in SinkFaults, fo \in SinkFaults :
          Call(WrapDlogger(M, b, fa, fo))

\* the caller chains its handlers (then/catch, or an await) on the promise
\* the wrapped method handed it
CallerAttach ==
    /\ pc = "done"
    /\ ret.t = "promise"
    /\ ~callerAttached
    /\ SetM(Ev(Then(M, ret.id, "caller"), "attached"))
    /\ callerAttached' = TRUE
    /\ UNCHANGED <<variant, propKeys, args, orig, pc, ret, callerSeen>>
    /\ UNCHANGED fvars

\* the pending promise the original returned settles; it is the first
\* promise the call created
Settle ==
    /\ orig # None
    /\ orig.kind = "promise"
    /\ promises[1].state = "pending"
    /\ \E b \in Behaviours :
          /\ b.kind = "promise"
          /\ b.st # "pending"
          /\ SetM(Ev(SettleP(M, 1, b.st, b.v), "settled"))
    /\ UNCHANGED <<variant, propKeys, args, orig, pc, ret, callerAttached, callerSeen>>
    /\ UNCHANGED fvars

\* the next job of the microtask queue runs
RunWrapThen ==
    /\ queue # <<>>
    /\ Head(queue).kind = "wrapThen"
    /\ \E f \in SinkFaults :
          SetM(JobWrapThen([M EXCEPT !.queue = Tail(@)], variant, Head(queue), f))
    /\ UNCHANGED <<variant, propKeys, args, orig, pc, ret, callerAttached, callerSeen>>
    /\ UNCHANGED fvars

RunWrapCatch ==
    /\ queue # <<>>
    /\ Head(queue).kind = "wrapCatch"
    /\ \E f \in SinkFaults :
          SetM(JobWrapCatch([M EXCEPT !.queue = Tail(@)], variant, Head(queue), f))
    /\ UNCHANGED <<variant, propKeys, args, orig, pc, ret, callerAttached, callerSeen>>
    /\ UNCHANGED fvars

RunCaller ==
    /\ queue # <<>>
    /\ Head(queue).kind = "caller"
    /\ SetM(JobCaller([M EXCEPT !.queue = Tail(@)], Head(queue)))
    /\ callerSeen' = [state |-> Head(queue).state, value |-> Head(queue).value]
    /\ UNCHANGED <<variant, propKeys, args, orig, pc, ret, callerAttached>>
    /\ UNCHANGED fvars

Next ==
    \/ InvokeIndex
    \/ InvokeLogger
    \/ InvokeDlogger
    \/ CallerAttach
    \/ Settle
    \/ RunWrapThen
    \/ RunWrapCatch
    \/ RunCaller

Spec == Init /\ [][Next]_vars

(***************************************************************************)
(* Properties                                                              *)
(***************************************************************************)
Has(e) == \E i \in DOMAIN trace : trace[i] = e
Idx(e) == CHOOSE i \in DOMAIN trace : trace[i] = e /\ \A j \in 1..(i - 1) : trace[j] # e
Entries(kind) == { i \in DOMAIN log : log[i].kind = kind }
Applied == orig # None
SinkWorked == ~Has("sinkFault")

\* C1: the wrapped method hands its caller exactly what the original
\* returned (the same plain value, or the same deferred value settling with
\* the same outcome) or fails with the error the original raised.  Stated
\* for the calls in which the sink works and the original is reached.
C1_Transparent ==
    (pc = "done" /\ Applied /\ SinkWorked) =>
        /\ orig.kind = "return" => ret = orig.v
        /\ (orig.kind = "throw" /\ orig.v.t = "error") => ret = Throw(orig.v)
        /\ orig.kind = "promise" =>
              /\ ret.t = "promise"
              /\ promises[ret.id].state # "pending" =>
                    /\ promises[ret.id].state = promises[1].state
                    /\ promises[ret.id].value = promises[1].value

\* C2: when the original raises an error synchronously, the caller gets the
\* identical error, and one entry tagged "error message" carrying its
\* message has been emitted before the error surfaces.  Stated for the calls
\* in which the sink works.
C2_SyncErrorLoggedAndRethrown ==
    (pc = "done" /\ Applied /\ orig.kind = "throw" /\ orig.v.t = "error"
        /\ SinkWorked) =>
        /\ ret = Throw(orig.v)
        /\ Cardinality(Entries(ErrorTag)) = 1
        /\ \A i \in Entries(ErrorTag) : log[i].text = MessageOf(orig.v)
        /\ Has(ErrorTag) /\ Idx(ErrorTag) < Idx("raised")

\* C3: when the original (wrapped by the Log of logger.ts or dlogger.ts)
\* returns a pending deferred value, the caller gets a deferred value at
\* once, no return or error entry is emitted while the original's value is
\* pending, and the chain the caller attached settles with the original
\* outcome.  Stated for the calls in which the sink works.
C3_PendingNotAwaited ==
    (variant # "index" /\ pc = "done" /\ Applied /\ orig.kind = "promise"
        /\ orig.st = "pending" /\ SinkWorked) =>
        /\ ret.t = "promise"
        /\ promises[1].state = "pending" =>
              Entries(ReturnTag) = {} /\ Entries(ErrorTag) = {}
        /\ callerSeen # None =>
              /\ callerSeen.state = promises[1].state
              /\ callerSeen.value = promises[1].value

\* C4: a failure of the sink is never propagated to the caller: the call
\* does not raise the sink's error, the original is applied, and the value
\* handed to the caller does not reject with the sink's error.
C4_SinkFailureContained ==
    /\ pc = "done" => (ret # Throw(SinkError) /\ Applied)
    /\ callerSeen # None => callerSeen.value # SinkError

\* C5: with a non-empty list of field paths, projecting an argument that is
\* not an object (a number, undefined, null) returns it unchanged and does
\* not raise.
C5_NonObjectPassThrough ==
    (fpc \in {"fwd", "done"} /\ obj.t \in {"undefined", "null", "number"}) =>
        out = obj

RECURSIVE StopsAt(_, _, _)
\* res holds the projection of the object o through one path as C6 words
\* it: at a segment whose value is not an object the traversal stops and the
\* key holds the value found there (or is left undefined/absent)
StopsAt(o, res, path) ==
    LET key == Head(path)
        v == Get(o, key)
    IN  /\ res.t = "object"
        /\ IF Tail(path) = <<>>
           THEN key \in DOMAIN res.f /\ res.f[key] = v
           ELSE IF v.t = "object"
                THEN key \in DOMAIN res.f /\ StopsAt(v, res.f[key], Tail(path))
                ELSE key \in DOMAIN res.f => res.f[key] \in {Undef, v}

\* C6: projecting an object through one dotted path never raises, and where
\* a segment is absent or holds a non-object the result holds the value
\* found at that point as it is, not a fabricated object.
C6_StopsAtNonObject ==
    (fpc \in {"fwd", "done"} /\ obj.t = "object" /\ Len(keys) = 1) =>
        /\ ~IsThrow(out)
        /\ StopsAt(obj, out, keys[1])

RECURSIVE Covers(_, _)
\* every property small selects is in big with the same value, nested
\* objects compared the same way
Covers(big, small) ==
    /\ big.t = "object"
    /\ small.t = "object"
    /\ \A k \in DOMAIN small.f :
          /\ k \in DOMAIN big.f
          /\ IF small.f[k].t = "object"
             THEN Covers(big.f[k], small.f[k])
             ELSE big.f[k] = small.f[k]

RECURSIVE Resolves(_, _)
\* every segment of the path is a property of the object reached so far
Resolves(o, path) ==
    /\ o.t = "object"
    /\ Head(path) \in DOMAIN o.f
    /\ Tail(path) # <<>> => Resolves(o.f[Head(path)], Tail(path))

\* C7: the projection through a list of paths holds the selection of every
\* path of the list (paths sharing a first segment are merged, none is
\* overwritten), and it is the same for the list in the opposite order.
\* Stated for the paths that lead to a property of the object.
C7_MergedAndOrderFree ==
    (fpc = "done" /\ \A i \in DOMAIN keys : Resolves(obj, keys[i])) =>
        /\ out = outRev
        /\ \A i \in DOMAIN keys : Covers(out, filterObject(obj, <<keys[i]>>))

\* the order of the events of a call whose original returns a plain value,
\* but for the place of the return entry
PlainReturnOrder ==
    /\ Has(ArgsTag) => Idx(ArgsTag) < Idx("invoke")
    /\ Has(ReturnTag) => Idx("invoke") < Idx(ReturnTag)
    /\ \A i \in Entries(ReturnTag) : log[i].text = Format(variant, orig.v)
    /\ Cardinality(Entries(ReturnTag)) <= 1

\* C8 (as stated): for an original returning a plain value the arguments
\* entry, the invocation, the return entry holding the value and the return
\* to the caller occur in this order; the return entry is never emitted
\* after control is back with the caller.
C8_ReturnEntryBeforeReturn ==
    (Applied /\ orig.kind = "return") =>
        /\ PlainReturnOrder
        /\ (Has(ReturnTag) /\ Has("returned")) => Idx(ReturnTag) < Idx("returned")

\* C8 (amended): for an original returning a plain value the arguments entry
\* precedes the invocation and the one return entry, holding the value,
\* follows it; the Log of index.ts emits it before returning to the caller,
\* the Log of logger.ts and of dlogger.ts only after control is back with the
\* caller.
C8_ReturnEntryPlacement ==
    (Applied /\ orig.kind = "return") =>
        /\ PlainReturnOrder
        /\ (variant = "index" /\ Has(ReturnTag) /\ Has("returned")) =>
              Idx(ReturnTag) < Idx("returned")
        /\ (variant # "index" /\ Has(ReturnTag)) =>
              Has("returned") /\ Idx("returned") < Idx(ReturnTag)

C8_Witness ==
    /\ variant = "dlogger"
    /\ Applied /\ orig.kind = "return"
    /\ ret = Num(1)
    /\ Has(ArgsTag) /\ Has(ReturnTag) /\ Has("returned")

\* C9: when the deferred value the original (wrapped by the Log of
\* dlogger.ts) returned rejects with an error, the failure surfaces to the
\* caller's rejection handler only after exactly one error entry, and no
\* return entry, has been emitted.  Stated for the calls in which the sink
\* works.
C9_ErrorEntryBeforeCallerSees ==
    (variant = "dlogger" /\ Applied /\ orig.kind = "promise" /\ SinkWorked
        /\ Has("callerRejected") /\ promises[1].value.t = "error") =>
        /\ Cardinality(Entries(ErrorTag)) = 1
        /\ Entries(ReturnTag) = {}
        /\ Has(ErrorTag) /\ Idx(ErrorTag) < Idx("callerRejected")

\* C10: when the deferred value the original (wrapped by the Log of
\* dlogger.ts) returned rejects and the caller has attached its rejection
\* handler, no rejected promise is left without a handler.  Stated for the
\* calls in which the sink works and the rejection reason is an error.
C10_NoUnhandledRejection ==
    (variant = "dlogger" /\ Applied /\ orig.kind = "promise" /\ callerAttached
        /\ SinkWorked /\ promises[1].state = "rejected"
        /\ promises[1].value.t = "error") =>
        \A i \in DOMAIN promises :
            promises[i].state = "rejected" => promises[i].handled

=============================================================================
